---- MODULE Spec2Model ----
(***************************************************************************)
(* The quiz session controller of src/App.tsx (component App) as a state   *)
(* machine: the GameState held by useState, the sessionStorage slot the    *)
(* persist effect writes, the pending setTimeout callbacks of handleAnswer *)
(* and the pending steps of handleFileUpload.  One action per event the    *)
(* browser can deliver: a click on a rendered control, a timer callback,   *)
(* the continuation of an await, a page reload.  A control that the render *)
(* function does not show (or shows disabled) delivers no click, so the    *)
(* JSX conditions of App are the guards of the click actions.              *)
(* React runs each handler to completion and commits the resulting render  *)
(* and its effects before the next event is delivered, so the closure      *)
(* value `gameState` a handler reads equals the `prev` its updater gets.   *)
(***************************************************************************)
EXTENDS Integers, Sequences, FiniteSets, TLC

\* ------------------------------------------------------------------ bounds
\* Longest payload the generation call returns in the model.
MaxProblems == 2
\* Most setTimeout callbacks of handleAnswer pending at once.
MaxTimers == 2
\* Most handleFileUpload invocations suspended at an await at once.
MaxCalls == 2
\* Largest number the snapshot text has to carry.
MaxNum == 9
\* Most cues played in one page lifetime of the sound service.
MaxCues == 4
\* Most segments on the scratch canvas, and most runs of the ScratchPad effect.
MaxInk == 3
MaxEffects == 3
\* Largest coordinate of a pointer position on the scratch canvas.
MaxPos == 1

\* ------------------------------------------------------------------ state
VARIABLES
    gameState,          \* useState<GameState>: problems, currentIndex, wrongProblemIds, status, isCorrect
    storage,            \* sessionStorage slot 'sansu_quest_state': <<>> (no item) or <<text>>
    timers,             \* number of pending setTimeout(..., 1200) callbacks
    reading,            \* handleFileUpload invocations awaiting base64Promise
    generating,         \* handleFileUpload invocations awaiting generateContent
    hasCheckedKey,      \* useState(false)
    needsKeySelection,  \* useState(false)
    audioAvailable,     \* whether window.AudioContext || webkitAudioContext is a constructor
    hasKey,             \* whether an API key is there: selected in aistudio, or process.env.API_KEY
    event,              \* history: the last event delivered, the status it found, its calls of clearCanvasRef.current
    generatedIds,       \* history: ids of the problems of the last successful generation
    correctIds,         \* history: of those, the ids answered correctly so far
    ctx,                \* SoundService.ctx: "null", or the state of the AudioContext it holds
    resumePending,      \* a promise of ctx.resume() has not settled yet
    call,               \* the play call that is past init() (op), what init found and did
    contexts,           \* history: AudioContext objects constructed
    resumes,            \* history: ctx.resume() calls
    cues,               \* history: cues scheduled (osc.start)
    context,            \* ScratchPad useState context: whether it holds the 2d context
    isDrawing,          \* ScratchPad useState(false)
    ink,                \* segments stroked on the canvas bitmap
    pen,                \* the last point of the canvas's current path, <<>> when the path is empty
    pointer,            \* history: the last down/up/leave event (button) and the last event (last) on the canvas
    effects             \* history: runs of the ScratchPad effect (each calls onClearRef)

\* The state of the App component and of the soundService singleton.
app == <<gameState, storage, timers, reading, generating, hasCheckedKey,
         needsKeySelection, audioAvailable, hasKey, event, generatedIds, correctIds>>
sound == <<ctx, resumePending, call, contexts, resumes, cues>>
\* The state of one ScratchPad and of its canvas.
pad == <<context, isDrawing, ink, pen, pointer, effects>>

vars == <<gameState, storage, timers, reading, generating, hasCheckedKey,
          needsKeySelection, audioAvailable, hasKey, event, generatedIds, correctIds,
          ctx, resumePending, call, contexts, resumes, cues,
          context, isDrawing, ink, pen, pointer, effects>>

\* ------------------------------------------------------------- AppStatus
IDLE == "IDLE"
LOADING == "LOADING"
PLAYING == "PLAYING"
FEEDBACK == "FEEDBACK"
RETRY_SUMMARY == "RETRY_SUMMARY"
FINISHED == "FINISHED"
AppStatus == {IDLE, LOADING, PLAYING, FEEDBACK, RETRY_SUMMARY, FINISHED}

\* boolean | null : null is the empty tuple, a boolean b is <<b>>
Null == <<>>
Some(b) == <<b>>

\* ------------------------------------------------------------ raw payload
\* A JSON value of the generation payload, tagged with its JavaScript type.
Undefined == [kind |-> "undefined"]
JStr(s) == [kind |-> "string", v |-> s]
JNum(n) == [kind |-> "number", v |-> n]
JArr(a) == [kind |-> "array", v |-> a]

\* The items a payload is built from: a well-formed one, and one with short
\* options and an out-of-range index.
RawItems ==
    << [question |-> JStr("2+2?"), options |-> JArr(<<"3", "4", "5">>), answerIndex |-> JNum(1)],
       [question |-> JStr("2+2?"), options |-> JArr(<<"3", "4">>), answerIndex |-> JNum(5)] >>

\* Payloads: arrays of at most MaxProblems items (as indexes into RawItems).
Payloads == UNION {[1..n -> 1..Len(RawItems)] : n \in 0..MaxProblems}

DefaultQuestion == "NoQuestion"
DefaultOptions == <<"?", "?", "?">>

\* p.question || default : a missing or empty question is falsy
coerceQuestion(p) ==
    IF p.question.kind = "string" /\ p.question.v # "" THEN p.question.v ELSE DefaultQuestion

\* Array.isArray(p.options) ? p.options : ["?", "?", "?"]
coerceOptions(p) ==
    IF p.options.kind = "array" THEN p.options.v ELSE DefaultOptions

\* typeof p.answerIndex === 'number' ? p.answerIndex : 0
coerceAnswerIndex(p) ==
    IF p.answerIndex.kind = "number" THEN p.answerIndex.v ELSE 0

\* id: `prob-${Date.now()}-${i}` : within one generation Date.now() is one
\* prefix and the ordinal i tells the ids apart; problems of two generations
\* are never in problems together, so the id is modelled by its ordinal.
generatedProblems(payload) ==
    [i \in 1..Len(payload) |->
        [id |-> i - 1,
         question |-> coerceQuestion(RawItems[payload[i]]),
         options |-> coerceOptions(RawItems[payload[i]]),
         answerIndex |-> coerceAnswerIndex(RawItems[payload[i]])]]

\* ------------------------------------------------------------ persistence
NumText(n) == ToString(n)
TextNum(s) == CHOOSE n \in 0..MaxNum : ToString(n) = s

BoolText(b) == IF b = Null THEN "null" ELSE IF b[1] THEN "true" ELSE "false"
TextBool(s) == IF s = "null" THEN Null ELSE Some(s = "true")

\* JSON.stringify(gameState): numbers, booleans and null become text, strings
\* and the shape of arrays and objects are kept.
stringify(gs) ==
    [problems |-> [i \in 1..Len(gs.problems) |->
                      [id |-> NumText(gs.problems[i].id),
                       question |-> gs.problems[i].question,
                       options |-> gs.problems[i].options,
                       answerIndex |-> NumText(gs.problems[i].answerIndex)]],
     currentIndex |-> NumText(gs.currentIndex),
     wrongProblemIds |-> [i \in 1..Len(gs.wrongProblemIds) |-> NumText(gs.wrongProblemIds[i])],
     status |-> gs.status,
     isCorrect |-> BoolText(gs.isCorrect)]

\* JSON.parse(saved)
parse(text) ==
    [problems |-> [i \in 1..Len(text.problems) |->
                      [id |-> TextNum(text.problems[i].id),
                       question |-> text.problems[i].question,
                       options |-> text.problems[i].options,
                       answerIndex |-> TextNum(text.problems[i].answerIndex)]],
     currentIndex |-> TextNum(text.currentIndex),
     wrongProblemIds |-> [i \in 1..Len(text.wrongProblemIds) |-> TextNum(text.wrongProblemIds[i])],
     status |-> text.status,
     isCorrect |-> TextBool(text.isCorrect)]

\* The canonical empty IDLE state (the literal of the initializer and of resetGame).
emptyGameState ==
    [problems |-> <<>>, currentIndex |-> 0, wrongProblemIds |-> <<>>,
     status |-> IDLE, isCorrect |-> Null]

\* Mutant of initialGameState: the restored status is not overwritten.
initialGameStateUnforced(saved) ==
    IF saved # <<>> THEN parse(saved[1]) ELSE emptyGameState

\* useState initializer: the saved snapshot with status forced to IDLE, else fresh.
initialGameState(saved) ==
    IF saved # <<>> THEN [parse(saved[1]) EXCEPT !.status = IDLE] ELSE emptyGameState

\* useEffect(() => sessionStorage.setItem(..., JSON.stringify(gameState)), [gameState])
persist(gs) == <<stringify(gs)>>

\* ----------------------------------------------------------------- Init
\* First load in a fresh browsing session: no snapshot, checkKey not yet done,
\* the mount-time persist effect has run.
Init ==
    /\ gameState = initialGameState(<<>>)
    /\ storage = persist(initialGameState(<<>>))
    /\ timers = 0
    /\ reading = 0
    /\ generating = 0
    /\ hasCheckedKey = FALSE
    /\ needsKeySelection = FALSE
    /\ audioAvailable \in BOOLEAN
    /\ hasKey \in BOOLEAN
    /\ event = [name |-> "mount", from |-> IDLE, clears |-> 0]
    /\ generatedIds = {}
    /\ correctIds = {}
    /\ ctx = "null"
    /\ resumePending = FALSE
    /\ call = [op |-> "none", found |-> "null", resumed |-> FALSE]
    /\ contexts = 0
    /\ resumes = 0
    /\ cues = 0
    /\ context = FALSE
    /\ isDrawing = FALSE
    /\ ink = 0
    /\ pen = <<>>
    /\ pointer = [button |-> "none", last |-> "none"]
    /\ effects = 0

\* The record of an event: its name and the status it found.
delivered(name) == [name |-> name, from |-> gameState.status, clears |-> 0]

\* The same for an event whose handler calls clearCanvasRef.current() n times.
deliveredClearing(name, n) == [name |-> name, from |-> gameState.status, clears |-> n]

\* Mutant of setGameState: the persist effect does not run.
setGameStateUnsaved(next) ==
    /\ gameState' = next
    /\ storage' = storage

\* setGameState(next) followed by the commit and the persist effect.
setGameState(next) ==
    /\ gameState' = next
    /\ storage' = persist(next)

\* ------------------------------------------------------------- rendering
\* `if (!hasCheckedKey) return null` and the needsKeySelection branch hide
\* every game view.
gameViewShown == hasCheckedKey /\ ~needsKeySelection

\* ------------------------------------------------------------- key check
\* useEffect checkKey: needsKeySelection := !hasKey, hasCheckedKey := true.
checkKey ==
    /\ ~hasCheckedKey
    /\ needsKeySelection' = ~hasKey
    /\ hasCheckedKey' = TRUE
    /\ event' = delivered("checkKey")
    /\ UNCHANGED <<gameState, storage, timers, reading, generating, audioAvailable, hasKey,
                   generatedIds, correctIds>>
    /\ UNCHANGED sound
    /\ UNCHANGED pad

\* The key-selection button: the aistudio dialog (if there is one) may leave a
\* key selected or not, and setNeedsKeySelection(false) follows whatever it did.
handleOpenSelectKey ==
    /\ hasCheckedKey
    /\ needsKeySelection
    /\ hasKey' \in {hasKey, TRUE}
    /\ needsKeySelection' = FALSE
    /\ event' = delivered("openSelectKey")
    /\ UNCHANGED <<gameState, storage, timers, reading, generating, hasCheckedKey,
                   audioAvailable, generatedIds, correctIds>>
    /\ UNCHANGED sound
    /\ UNCHANGED pad

\* Mutant of resetGame: the pending timers are cleared.
resetGameClearsTimers ==
    /\ gameViewShown
    /\ setGameState(emptyGameState)
    /\ timers' = 0
    /\ event' = delivered("reset")
    /\ UNCHANGED <<reading, generating, hasCheckedKey, needsKeySelection,
                   audioAvailable, hasKey, generatedIds, correctIds>>
    /\ UNCHANGED sound
    /\ UNCHANGED pad

\* Mutant of resetGame: only the status goes back to IDLE.
resetGameKeepsRound ==
    /\ gameViewShown
    /\ setGameState([gameState EXCEPT !.status = IDLE])
    /\ event' = delivered("reset")
    /\ UNCHANGED <<timers, reading, generating, hasCheckedKey, needsKeySelection,
                   audioAvailable, hasKey, generatedIds, correctIds>>
    /\ UNCHANGED sound
    /\ UNCHANGED pad

\* ------------------------------------------------------------ resetGame
resetGame ==
    /\ gameViewShown
    /\ setGameState(emptyGameState)
    /\ event' = delivered("reset")
    /\ UNCHANGED <<timers, reading, generating, hasCheckedKey, needsKeySelection,
                   audioAvailable, hasKey, generatedIds, correctIds>>
    /\ UNCHANGED sound
    /\ UNCHANGED pad

\* The kinds of error the catch block tells apart by message.
ErrorKinds == {"Requested entity was not found", "other"}

\* The state the catch block sets.
generationFailed(prev) == [prev EXCEPT !.status = IDLE]

\* Mutant of catchBlock: every failure asks for a new key selection.
catchBlockAlwaysReselects(errorMessage) ==
    /\ needsKeySelection' = TRUE
    /\ setGameState(generationFailed(gameState))

\* The catch block for an error with the given message.
catchBlock(errorMessage) ==
    /\ needsKeySelection' =
          IF errorMessage = "Requested entity was not found" THEN TRUE
          ELSE needsKeySelection
    /\ setGameState(generationFailed(gameState))

\* ------------------------------------------------------- handleFileUpload
\* The file input is rendered only in the IDLE view.  With a file chosen the
\* handler sets LOADING, builds the client with `process.env.API_KEY || ""`
\* (there is no test of the key) and suspends at `await base64Promise`.
\* The client library is not part of the sources: with the empty key its
\* constructor either returns or throws, and a throw is caught before the
\* first await, so that LOADING and the IDLE of the catch block are committed
\* together.
handleFileUpload ==
    /\ gameViewShown
    /\ gameState.status = IDLE
    /\ event' = delivered("upload")
    /\ \/ /\ reading + generating < MaxCalls
          /\ setGameState([gameState EXCEPT !.status = LOADING])
          /\ reading' = reading + 1
          /\ UNCHANGED needsKeySelection
       \/ /\ ~hasKey
          /\ catchBlock("other")
          /\ UNCHANGED reading
    /\ UNCHANGED <<timers, generating, hasCheckedKey, audioAvailable, hasKey,
                   generatedIds, correctIds>>
    /\ UNCHANGED sound
    /\ UNCHANGED pad

\* reader.onload: base64Promise resolves and generateContent is called.
readerOnload ==
    /\ reading > 0
    /\ reading' = reading - 1
    /\ generating' = generating + 1
    /\ event' = delivered("readerOnload")
    /\ UNCHANGED <<gameState, storage, timers, hasCheckedKey, needsKeySelection,
                   audioAvailable, hasKey, generatedIds, correctIds>>
    /\ UNCHANGED sound
    /\ UNCHANGED pad

\* The read fails: only onload is set and the promise has no reject, so
\* base64Promise never settles and this invocation never resumes.
readerOnerror ==
    /\ reading > 0
    /\ reading' = reading - 1
    /\ event' = delivered("readerOnerror")
    /\ UNCHANGED <<gameState, storage, timers, generating, hasCheckedKey,
                   needsKeySelection, audioAvailable, hasKey, generatedIds, correctIds>>
    /\ UNCHANGED sound
    /\ UNCHANGED pad

\* The state the success path sets (a payload that is no array maps to []).
generationSucceeded(payload) ==
    [problems |-> generatedProblems(payload), currentIndex |-> 0,
     wrongProblemIds |-> <<>>, status |-> PLAYING, isCorrect |-> Null]

\* generateContent resolves with a parsable text.
generateContentResolved ==
    /\ generating > 0
    /\ \E payload \in Payloads :
          /\ setGameState(generationSucceeded(payload))
          /\ generatedIds' = {i - 1 : i \in 1..Len(payload)}
    /\ correctIds' = {}
    /\ generating' = generating - 1
    /\ event' = delivered("resolved")
    /\ UNCHANGED <<timers, reading, hasCheckedKey, needsKeySelection, audioAvailable, hasKey>>
    /\ UNCHANGED sound
    /\ UNCHANGED pad

\* The try block throws after the await: generateContent rejects, the text is
\* empty, JSON.parse fails or an item is null.
generateContentRejected ==
    /\ generating > 0
    /\ \E errorMessage \in ErrorKinds : catchBlock(errorMessage)
    /\ generating' = generating - 1
    /\ event' = delivered("rejected")
    /\ UNCHANGED <<timers, reading, hasCheckedKey, audioAvailable, hasKey, generatedIds, correctIds>>
    /\ UNCHANGED sound
    /\ UNCHANGED pad

\* ----------------------------------------------------------- handleAnswer
\* Option button k is in the DOM: the PLAYING/FEEDBACK view is rendered and
\* problems[currentIndex] exists and has an option k.
answerButtonRendered(k) ==
    /\ gameViewShown
    /\ gameState.status \in {PLAYING, FEEDBACK}
    /\ gameState.currentIndex < Len(gameState.problems)
    /\ k < Len(gameState.problems[gameState.currentIndex + 1].options)

\* Mutant of answerButtonEnabled: the buttons are not disabled while FEEDBACK.
answerButtonNeverDisabled(k) == answerButtonRendered(k)

\* disabled={gameState.status === AppStatus.FEEDBACK}
answerButtonEnabled(k) ==
    /\ answerButtonRendered(k)
    /\ gameState.status # FEEDBACK

\* SoundService.init: `new (window.AudioContext || webkitAudioContext)()`
\* throws a TypeError when neither constructor exists, before `if (!this.ctx) return`.
soundServiceThrows == ~audioAvailable

\* Mutant of judge: the index of the problem is recorded instead of its id.
judgeRecordsIndex(prev, choiceIndex) ==
    LET currentProblem == prev.problems[prev.currentIndex + 1]
        correct == (choiceIndex = currentProblem.answerIndex)
    IN  [prev EXCEPT !.status = FEEDBACK,
                     !.isCorrect = Some(correct),
                     !.wrongProblemIds = IF correct THEN @ ELSE Append(@, prev.currentIndex)]

\* The first updater of handleAnswer.
judge(prev, choiceIndex) ==
    LET currentProblem == prev.problems[prev.currentIndex + 1]
        correct == (choiceIndex = currentProblem.answerIndex)
    IN  [prev EXCEPT !.status = FEEDBACK,
                     !.isCorrect = Some(correct),
                     !.wrongProblemIds = IF correct THEN @ ELSE Append(@, currentProblem.id)]

\* A click on the rendered option button k.  A disabled button runs nothing;
\* an enabled one runs handleAnswer, which plays the cue (and ends there if
\* that throws), sets the judged state and schedules the delayed advance.
handleAnswer(k) ==
    /\ answerButtonRendered(k)
    /\ event' = delivered("answer")
    /\ IF answerButtonEnabled(k) /\ ~soundServiceThrows
       THEN /\ timers < MaxTimers
            /\ setGameState(judge(gameState, k))
            /\ timers' = timers + 1
            /\ correctIds' =
                  IF k = gameState.problems[gameState.currentIndex + 1].answerIndex
                  THEN correctIds \cup {gameState.problems[gameState.currentIndex + 1].id}
                  ELSE correctIds
       ELSE UNCHANGED <<gameState, storage, timers, correctIds>>
    /\ UNCHANGED <<reading, generating, hasCheckedKey, needsKeySelection, audioAvailable, hasKey,
                   generatedIds>>
    /\ UNCHANGED sound
    /\ UNCHANGED pad

\* Mutant of advance: a round that ends with no wrong id ends the quest.
advanceFinishesPerfectRound(prev) ==
    LET nextIndex == prev.currentIndex + 1
        isEndOfRound == nextIndex >= Len(prev.problems)
    IN  [prev EXCEPT !.status = IF isEndOfRound
                                THEN (IF Len(prev.wrongProblemIds) = 0
                                      THEN FINISHED ELSE RETRY_SUMMARY)
                                ELSE PLAYING,
                     !.currentIndex = nextIndex,
                     !.isCorrect = Null]

\* Mutant of advance: the wrong ids recorded so far are dropped.
advanceDropsWrongIds(prev) ==
    LET nextIndex == prev.currentIndex + 1
        isEndOfRound == nextIndex >= Len(prev.problems)
    IN  [prev EXCEPT !.status = IF isEndOfRound THEN RETRY_SUMMARY ELSE PLAYING,
                     !.currentIndex = nextIndex,
                     !.wrongProblemIds = <<>>,
                     !.isCorrect = Null]

\* Mutant of advance: the cursor stays on the problem just answered.
advanceKeepsIndex(prev) ==
    LET nextIndex == prev.currentIndex
        isEndOfRound == nextIndex >= Len(prev.problems)
    IN  [prev EXCEPT !.status = IF isEndOfRound THEN RETRY_SUMMARY ELSE PLAYING,
                     !.currentIndex = nextIndex,
                     !.isCorrect = Null]

\* Mutant of advance: the round ends one problem late.
advanceEndsLate(prev) ==
    LET nextIndex == prev.currentIndex + 1
        isEndOfRound == nextIndex > Len(prev.problems)
    IN  [prev EXCEPT !.status = IF isEndOfRound THEN RETRY_SUMMARY ELSE PLAYING,
                     !.currentIndex = nextIndex,
                     !.isCorrect = Null]

\* The updater of the setTimeout callback.
advance(prev) ==
    LET nextIndex == prev.currentIndex + 1
        isEndOfRound == nextIndex >= Len(prev.problems)
    IN  [prev EXCEPT !.status = IF isEndOfRound THEN RETRY_SUMMARY ELSE PLAYING,
                     !.currentIndex = nextIndex,
                     !.isCorrect = Null]

\* Mutant of timerFired: the canvas is cleared only when a next problem follows.
timerFiredClearsInRound ==
    /\ timers > 0
    /\ setGameState(advance(gameState))
    /\ timers' = timers - 1
    /\ event' = deliveredClearing("timer", IF advance(gameState).status = PLAYING THEN 1 ELSE 0)
    /\ UNCHANGED <<reading, generating, hasCheckedKey, needsKeySelection, audioAvailable, hasKey,
                   generatedIds, correctIds>>
    /\ UNCHANGED sound
    /\ UNCHANGED pad

\* A pending setTimeout callback runs; nothing ever clears it but a reload.
\* After the updater it calls clearCanvasRef.current(), which is never null.
timerFired ==
    /\ timers > 0
    /\ setGameState(advance(gameState))
    /\ timers' = timers - 1
    /\ event' = deliveredClearing("timer", 1)
    /\ UNCHANGED <<reading, generating, hasCheckedKey, needsKeySelection, audioAvailable, hasKey,
                   generatedIds, correctIds>>
    /\ UNCHANGED sound
    /\ UNCHANGED pad

\* -------------------------------------------------------- startRetryRound
\* wrongProblemIds.includes(id)
includes(ids, id) == \E i \in 1..Len(ids) : ids[i] = id

\* Mutant of filterWrong: the problems answered right are kept.
filterRight(gs) == SelectSeq(gs.problems, LAMBDA p : ~includes(gs.wrongProblemIds, p.id))

\* problems.filter(p => wrongProblemIds.includes(p.id))
filterWrong(gs) == SelectSeq(gs.problems, LAMBDA p : includes(gs.wrongProblemIds, p.id))

\* Mutant of retryRound: a single remaining problem already ends the quest.
retryRoundEndsEarly(gs) ==
    LET nextProblems == filterWrong(gs)
    IN  IF Len(nextProblems) <= 1
        THEN [gs EXCEPT !.status = FINISHED]
        ELSE [problems |-> nextProblems, currentIndex |-> 0, wrongProblemIds |-> <<>>,
              status |-> PLAYING, isCorrect |-> Null]

\* The state startRetryRound sets.
retryRound(gs) ==
    LET nextProblems == filterWrong(gs)
    IN  IF Len(nextProblems) = 0
        THEN [gs EXCEPT !.status = FINISHED]
        ELSE [problems |-> nextProblems, currentIndex |-> 0, wrongProblemIds |-> <<>>,
              status |-> PLAYING, isCorrect |-> Null]

\* The retry button is rendered in the RETRY_SUMMARY view when wrongProblemIds
\* is not empty.  The branch that starts a round calls clearCanvasRef.current().
startRetryRound ==
    /\ gameViewShown
    /\ gameState.status = RETRY_SUMMARY
    /\ Len(gameState.wrongProblemIds) # 0
    /\ setGameState(retryRound(gameState))
    /\ event' = deliveredClearing("retry", IF Len(filterWrong(gameState)) = 0 THEN 0 ELSE 1)
    /\ UNCHANGED <<timers, reading, generating, hasCheckedKey, needsKeySelection,
                   audioAvailable, hasKey, generatedIds, correctIds>>
    /\ UNCHANGED sound
    /\ UNCHANGED pad

\* ----------------------------------------------------------------- reload
\* The page is reloaded: timers and suspended handlers are gone, component
\* state is rebuilt, gameState from the stored snapshot.
reload ==
    /\ setGameState(initialGameState(storage))
    /\ timers' = 0
    /\ reading' = 0
    /\ generating' = 0
    /\ hasCheckedKey' = FALSE
    /\ needsKeySelection' = FALSE
    /\ event' = delivered("reload")
    /\ UNCHANGED <<audioAvailable, hasKey, generatedIds, correctIds>>
    /\ UNCHANGED sound
    /\ UNCHANGED pad

\* Indexes of the option buttons a click is tried on.
Choices == 0..2

Next ==
    \/ checkKey
    \/ handleOpenSelectKey
    \/ resetGame
    \/ handleFileUpload
    \/ readerOnload
    \/ readerOnerror
    \/ generateContentResolved
    \/ generateContentRejected
    \/ \E k \in Choices : handleAnswer(k)
    \/ timerFired
    \/ startRetryRound
    \/ reload

Spec == Init /\ [][Next]_vars

\* The timer, the file reader and the generation call each settle if left
\* pending; the key check runs after mount.
FairSpec ==
    /\ Spec
    /\ WF_vars(checkKey)
    /\ WF_vars(timerFired)
    /\ WF_vars(readerOnload \/ readerOnerror)
    /\ WF_vars(generateContentResolved \/ generateContentRejected)

\* Only the timer is assumed to run if left pending.
TimerFairSpec ==
    /\ Spec
    /\ WF_vars(timerFired)

\* ----------------------------------------------------------- SoundService
\* The App sees of the soundService singleton only whether a cue returns or
\* throws (soundServiceThrows); the singleton's own state is followed here,
\* over one page lifetime, with playSuccess and playFailure called in any
\* order.  A call is two steps, init() and the scheduling of the cue, with
\* nothing in between (JavaScript runs the call to completion).

\* The states a new or a running AudioContext can be found in.
ContextStates == {"running", "suspended"}

\* Mutant of init: a suspended context is not resumed.
initWithoutResume(op) ==
    /\ call.op = "none"
    /\ cues < MaxCues
    /\ IF ctx = "null" /\ ~audioAvailable
       THEN /\ call' = [op |-> "none", found |-> "null", resumed |-> FALSE]
            /\ UNCHANGED <<ctx, resumePending, contexts, resumes>>
       ELSE \E created \in ContextStates :
               LET state == IF ctx = "null" THEN created ELSE ctx
               IN  /\ ctx' = state
                   /\ contexts' = IF ctx = "null" THEN contexts + 1 ELSE contexts
                   /\ UNCHANGED <<resumes, resumePending>>
                   /\ call' = [op |-> op, found |-> state, resumed |-> FALSE]
    /\ UNCHANGED cues
    /\ UNCHANGED app
    /\ UNCHANGED pad

\* this.init() at the start of play call op.  Without a context it constructs
\* one, which throws when there is no constructor (the call ends there); the
\* browser hands a new context out running or suspended.  A context found
\* suspended is asked to resume.
init(op) ==
    /\ call.op = "none"
    /\ cues < MaxCues
    /\ IF ctx = "null" /\ ~audioAvailable
       THEN /\ call' = [op |-> "none", found |-> "null", resumed |-> FALSE]
            /\ UNCHANGED <<ctx, resumePending, contexts, resumes>>
       ELSE \E created \in ContextStates :
               LET state == IF ctx = "null" THEN created ELSE ctx
               IN  /\ ctx' = state
                   /\ contexts' = IF ctx = "null" THEN contexts + 1 ELSE contexts
                   /\ resumes' = IF state = "suspended" THEN resumes + 1 ELSE resumes
                   /\ resumePending' = (resumePending \/ state = "suspended")
                   /\ call' = [op |-> op, found |-> state, resumed |-> (state = "suspended")]
    /\ UNCHANGED cues
    /\ UNCHANGED app
    /\ UNCHANGED pad

\* The rest of play call op: `if (!this.ctx) return` never returns after init
\* has returned, the oscillator is built and started.
scheduleCue(op) ==
    /\ call.op = op
    /\ cues' = cues + 1
    /\ call' = [call EXCEPT !.op = "none"]
    /\ UNCHANGED <<ctx, resumePending, contexts, resumes>>
    /\ UNCHANGED app
    /\ UNCHANGED pad

playSuccess ==
    \/ init("playSuccess")
    \/ scheduleCue("playSuccess")

playFailure ==
    \/ init("playFailure")
    \/ scheduleCue("playFailure")

\* The browser suspends the running context (autoplay policy, a hidden tab).
contextSuspended ==
    /\ call.op = "none"
    /\ ctx = "running"
    /\ ctx' = "suspended"
    /\ UNCHANGED <<resumePending, call, contexts, resumes, cues>>
    /\ UNCHANGED app
    /\ UNCHANGED pad

\* The promise of ctx.resume() settles: the context runs, or stays as it was.
resumeSettled ==
    /\ call.op = "none"
    /\ resumePending
    /\ resumePending' = FALSE
    /\ ctx' \in {ctx, "running"}
    /\ UNCHANGED <<call, contexts, resumes, cues>>
    /\ UNCHANGED app
    /\ UNCHANGED pad

SoundNext ==
    \/ playSuccess
    \/ playFailure
    \/ contextSuspended
    \/ resumeSettled

SoundSpec == Init /\ [][SoundNext]_vars

\* -------------------------------------------------------------- ScratchPad
\* One ScratchPad and its canvas, from its mount on.  The App reaches it only
\* through the function it registers with onClearRef; its own state is
\* followed here.

\* Pointer positions (getPos) on the canvas.
Positions == (0..MaxPos) \X (0..MaxPos)

\* initCanvas: the canvas takes the size of its parent, which empties its
\* bitmap and its current path, and the 2d context, if the canvas gives one,
\* is stored with setContext.
initCanvas(supported) ==
    /\ ink' = 0
    /\ pen' = <<>>
    /\ context' = (context \/ supported)

\* The ScratchPad is mounted and its effect runs for the first time:
\* initCanvas, the resize listener, onClearRef(clear function).
mount ==
    /\ effects = 0
    /\ \E supported \in BOOLEAN : initCanvas(supported)
    /\ effects' = 1
    /\ UNCHANGED <<isDrawing, pointer>>
    /\ UNCHANGED app
    /\ UNCHANGED sound

\* The App renders again with the ScratchPad still mounted.  The prop is the
\* inline arrow `(fn) => clearCanvasRef.current = fn`, a new function on every
\* render of App, and onClearRef is a dependency of the effect: the effect
\* runs again.
ownerRerendered ==
    /\ effects > 0
    /\ effects < MaxEffects
    /\ initCanvas(context)
    /\ effects' = effects + 1
    /\ UNCHANGED <<isDrawing, pointer>>
    /\ UNCHANGED app
    /\ UNCHANGED sound

\* The window is resized: the listener calls initCanvas.
windowResized ==
    /\ effects > 0
    /\ initCanvas(context)
    /\ UNCHANGED <<isDrawing, pointer, effects>>
    /\ UNCHANGED app
    /\ UNCHANGED sound

\* The registered function is called (the erase button, the timer callback,
\* a retry-round start): clearRect over the whole canvas.
clearCanvas ==
    /\ effects > 0
    /\ ink' = 0
    /\ UNCHANGED <<context, isDrawing, pen, pointer, effects>>
    /\ UNCHANGED app
    /\ UNCHANGED sound

\* onMouseDown / onTouchStart
startDrawing(pos) ==
    /\ effects > 0
    /\ pointer' = [button |-> "down", last |-> "down"]
    /\ IF ~context
       THEN UNCHANGED <<isDrawing, pen>>
       ELSE /\ pen' = pos
            /\ isDrawing' = TRUE
    /\ UNCHANGED <<context, ink, effects>>
    /\ UNCHANGED app
    /\ UNCHANGED sound

\* onMouseMove / onTouchMove: lineTo and stroke.  On an empty path lineTo
\* only sets the first point and stroke renders nothing.
draw(pos) ==
    /\ effects > 0
    /\ pointer' = [pointer EXCEPT !.last = "move"]
    /\ IF ~isDrawing \/ ~context
       THEN UNCHANGED <<ink, pen>>
       ELSE IF pen = <<>>
            THEN /\ pen' = pos
                 /\ UNCHANGED ink
            ELSE /\ ink < MaxInk
                 /\ ink' = ink + 1
                 /\ pen' = pos
    /\ UNCHANGED <<context, isDrawing, effects>>
    /\ UNCHANGED app
    /\ UNCHANGED sound

\* Mutant of stopDrawing: leaving the canvas does not end the stroke.
stopDrawingOnUpOnly(kind) ==
    /\ effects > 0
    /\ pointer' = [button |-> kind, last |-> kind]
    /\ IF ~isDrawing \/ kind = "leave"
       THEN UNCHANGED isDrawing
       ELSE isDrawing' = FALSE
    /\ UNCHANGED <<context, ink, pen, effects>>
    /\ UNCHANGED app
    /\ UNCHANGED sound

\* onMouseUp / onTouchEnd (kind "up") and onMouseLeave (kind "leave")
stopDrawing(kind) ==
    /\ effects > 0
    /\ pointer' = [button |-> kind, last |-> kind]
    /\ IF ~isDrawing
       THEN UNCHANGED isDrawing
       ELSE isDrawing' = FALSE
    /\ UNCHANGED <<context, ink, pen, effects>>
    /\ UNCHANGED app
    /\ UNCHANGED sound

\* The pointer events on the canvas.
pointerEvent ==
    \/ \E pos \in Positions : startDrawing(pos)
    \/ \E pos \in Positions : draw(pos)
    \/ stopDrawing("up")
    \/ stopDrawing("leave")

\* A mounted ScratchPad that receives pointer events only.
StrokeNext ==
    \/ mount
    \/ pointerEvent

StrokeSpec == Init /\ [][StrokeNext]_vars

\* A mounted ScratchPad with everything that can reach it.
PadNext ==
    \/ mount
    \/ pointerEvent
    \/ ownerRerendered
    \/ windowResized
    \/ clearCanvas

PadSpec == Init /\ [][PadNext]_vars

\* ------------------------------------------------------------------ types
TypeOK ==
    /\ gameState.status \in AppStatus
    /\ gameState.currentIndex \in 0..MaxNum
    /\ gameState.isCorrect \in {Null, Some(TRUE), Some(FALSE)}
    /\ timers \in 0..MaxTimers
    /\ reading + generating <= MaxCalls

\* ----------------------------------------------------------------- claims
Range(f) == {f[i] : i \in 1..Len(f)}

\* C1: in every reachable state 0 <= currentIndex <= len(problems).
C1_IndexWithinProblems ==
    /\ 0 <= gameState.currentIndex
    /\ gameState.currentIndex <= Len(gameState.problems)

\* A completed outcome: the "perfect" summary or the final screen.
completed ==
    \/ gameState.status = FINISHED
    \/ gameState.status = RETRY_SUMMARY /\ gameState.wrongProblemIds = <<>>

\* C2: a completed outcome is reached only after every problem of the generated
\* set has been answered correctly at least once.
C2_CompletedOnlyAfterAllCorrect ==
    completed => generatedIds \subseteq correctIds

\* C3: a click on an option while status is not PLAYING changes neither the
\* game state nor the stored snapshot and schedules no timer (outside the
\* PLAYING/FEEDBACK view there is no option to click at all).
C3_AnswerIgnoredUnlessPlaying ==
    [][(event'.name = "answer" /\ gameState.status # PLAYING)
          => (gameState' = gameState /\ storage' = storage /\ timers' = timers)]_vars

\* A click on an option has been ignored while the feedback mark was shown.
C3_Witness ==
    /\ event.name = "answer"
    /\ event.from = FEEDBACK
    /\ gameState.status = FEEDBACK
    /\ timers = 1

\* C4: from every PLAYING state, a click on a rendered option k sets FEEDBACK
\* and isCorrect = (k = answerIndex of the current problem), appends the
\* current id to wrongProblemIds exactly when wrong, and keeps problems and
\* currentIndex.
C4_AnswerJudged ==
    [][\A k \in Choices :
          (handleAnswer(k) /\ answerButtonEnabled(k))
          => LET currentProblem == gameState.problems[gameState.currentIndex + 1]
                 correct == (k = currentProblem.answerIndex)
             IN  /\ gameState'.status = FEEDBACK
                 /\ gameState'.isCorrect = Some(correct)
                 /\ gameState'.wrongProblemIds =
                       IF correct THEN gameState.wrongProblemIds
                       ELSE gameState.wrongProblemIds \o <<currentProblem.id>>
                 /\ gameState'.problems = gameState.problems
                 /\ gameState'.currentIndex = gameState.currentIndex]_vars

\* The statement of C4 for the sessions in which the audio context can be built.
AnswerJudgedWhenCuePlays ==
    [][\A k \in Choices :
          (handleAnswer(k) /\ answerButtonEnabled(k) /\ audioAvailable)
          => LET currentProblem == gameState.problems[gameState.currentIndex + 1]
                 correct == (k = currentProblem.answerIndex)
             IN  /\ gameState'.status = FEEDBACK
                 /\ gameState'.isCorrect = Some(correct)
                 /\ gameState'.wrongProblemIds =
                       IF correct THEN gameState.wrongProblemIds
                       ELSE gameState.wrongProblemIds \o <<currentProblem.id>>
                 /\ gameState'.problems = gameState.problems
                 /\ gameState'.currentIndex = gameState.currentIndex]_vars

\* The last event was an answer that was accepted (it found PLAYING and left FEEDBACK).
answerAccepted ==
    /\ event.name = "answer"
    /\ event.from = PLAYING
    /\ gameState.status = FEEDBACK

\* C5: after an accepted answer a timer callback eventually runs (unless the
\* page is reloaded, which discards it), and when it is the next event it sets
\* currentIndex + 1 and isCorrect = null, RETRY_SUMMARY at the end of the
\* round and PLAYING otherwise, and keeps problems and wrongProblemIds.
C5_DelayedAdvance ==
    /\ [][(answerAccepted /\ event'.name = "timer")
            => /\ gameState'.currentIndex = gameState.currentIndex + 1
               /\ gameState'.isCorrect = Null
               /\ gameState'.status =
                     IF gameState.currentIndex + 1 >= Len(gameState.problems)
                     THEN RETRY_SUMMARY ELSE PLAYING
               /\ gameState'.problems = gameState.problems
               /\ gameState'.wrongProblemIds = gameState.wrongProblemIds]_vars
    /\ (answerAccepted ~> (event.name = "timer" \/ event.name = "reload"))

\* The timer ran right after a wrong answer to the last problem of a round.
C5_Witness ==
    /\ event.name = "timer"
    /\ event.from = FEEDBACK
    /\ gameState.status = RETRY_SUMMARY
    /\ gameState.currentIndex = Len(gameState.problems)
    /\ gameState.wrongProblemIds # <<>>

\* s is t with some elements removed, the others in their order (ids are
\* distinct within problems).
keepsOrder(s, t) ==
    \A i, j \in 1..Len(s) : i < j =>
        \E a, b \in 1..Len(t) : a < b /\ t[a] = s[i] /\ t[b] = s[j]

\* C6: a retry-round start with a wrong problem among problems sets problems
\* to those whose id is in wrongProblemIds, in their order, with PLAYING,
\* currentIndex 0, no wrong ids and isCorrect null.
C6_RetryRoundIsWrongSubsequence ==
    [][(event'.name = "retry"
          /\ \E p \in Range(gameState.problems) : p.id \in Range(gameState.wrongProblemIds))
          => /\ Range(gameState'.problems) =
                   {p \in Range(gameState.problems) : p.id \in Range(gameState.wrongProblemIds)}
             /\ keepsOrder(gameState'.problems, gameState.problems)
             /\ gameState'.status = PLAYING
             /\ gameState'.currentIndex = 0
             /\ gameState'.wrongProblemIds = <<>>
             /\ gameState'.isCorrect = Null]_vars

\* A retry round of the second problem alone has started.
C6_Witness ==
    /\ event.name = "retry"
    /\ Len(gameState.problems) = 1
    /\ gameState.problems[1].id = 1
    /\ gameState.status = PLAYING

\* C7: a retry-round start never gives PLAYING with zero problems: with no
\* problem recorded wrong it gives FINISHED and keeps the other fields, and
\* otherwise it gives PLAYING with problems among the previous ones.
C7_RetryRoundNarrows ==
    [][event'.name = "retry"
          => /\ ~(gameState'.status = PLAYING /\ Len(gameState'.problems) = 0)
             /\ IF \A p \in Range(gameState.problems) : p.id \notin Range(gameState.wrongProblemIds)
                THEN gameState' = [gameState EXCEPT !.status = FINISHED]
                ELSE /\ gameState'.status = PLAYING
                     /\ Range(gameState'.problems) \subseteq Range(gameState.problems)]_vars

\* A retry round has started on fewer problems than were generated.
C7_Witness ==
    /\ event.name = "retry"
    /\ event.from = RETRY_SUMMARY
    /\ gameState.status = PLAYING
    /\ Len(gameState.problems) > 0
    /\ Len(gameState.problems) < Cardinality(generatedIds)

\* C8: reset gives problems = [], currentIndex = 0, wrongProblemIds = [],
\* status = IDLE, isCorrect = null, from every status.
C8_ResetIsUnconditional ==
    [][event'.name = "reset"
          => /\ gameState'.problems = <<>>
             /\ gameState'.currentIndex = 0
             /\ gameState'.wrongProblemIds = <<>>
             /\ gameState'.status = IDLE
             /\ gameState'.isCorrect = Null]_vars

\* A reset was processed while the feedback mark was shown.
C8_Witness ==
    /\ event.name = "reset"
    /\ event.from = FEEDBACK
    /\ gameState.status = IDLE
    /\ timers > 0

\* C9: every LOADING state is eventually followed by IDLE or PLAYING.
C9_LoadingIsLeft ==
    (gameState.status = LOADING) ~> (gameState.status \in {IDLE, PLAYING})

\* C10: a controller start from the persisted snapshot gives the problems,
\* currentIndex and wrongProblemIds of the persisted state, and status IDLE.
C10_RestoreKeepsRound ==
    [][(event'.name = "reload" /\ storage = persist(gameState))
          => /\ gameState'.problems = gameState.problems
             /\ gameState'.currentIndex = gameState.currentIndex
             /\ gameState'.wrongProblemIds = gameState.wrongProblemIds
             /\ gameState'.status = IDLE]_vars

\* The page was reloaded during feedback on a wrong answer to the second problem.
C10_Witness ==
    /\ event.name = "reload"
    /\ event.from = FEEDBACK
    /\ gameState.status = IDLE
    /\ gameState.currentIndex = 1
    /\ gameState.wrongProblemIds # <<>>

\* The stored snapshot is the text of the current state.
StorageIsCurrent == storage = persist(gameState)

\* C11: between events the session storage slot holds one snapshot, and that
\* snapshot read back equals the current game state in all five fields; every
\* event that changes the game state overwrites the slot with the text of the
\* whole new state.
C11_SnapshotIsCurrent ==
    /\ Len(storage) = 1
    /\ parse(storage[1]).problems = gameState.problems
    /\ parse(storage[1]).currentIndex = gameState.currentIndex
    /\ parse(storage[1]).wrongProblemIds = gameState.wrongProblemIds
    /\ parse(storage[1]).status = gameState.status
    /\ parse(storage[1]).isCorrect = gameState.isCorrect

\* The snapshot of a finished round with a wrong answer was written by the
\* timer callback, over the snapshot of the feedback state.
C11_Witness ==
    /\ event.name = "timer"
    /\ event.from = FEEDBACK
    /\ storage[1].status = RETRY_SUMMARY
    /\ storage[1].currentIndex = "2"
    /\ Len(storage[1].wrongProblemIds) = 1
    /\ storage[1].isCorrect = "null"

\* The final screen is never shown: the retry button exists only with a wrong
\* id, and every wrong id is the id of a current problem.
NeverFinished == gameState.status # FINISHED

\* C12: in every reachable state no id appears twice in wrongProblemIds.
C12_WrongIdsDistinct ==
    \A i, j \in 1..Len(gameState.wrongProblemIds) :
        i # j => gameState.wrongProblemIds[i] # gameState.wrongProblemIds[j]

\* Both problems of a round have been answered wrong.
C12_Witness ==
    /\ Len(gameState.wrongProblemIds) = 2
    /\ gameState.wrongProblemIds[1] # gameState.wrongProblemIds[2]
    /\ event.name = "answer"
    /\ event.from = PLAYING

\* C13: in every reachable state isCorrect is null unless status is FEEDBACK.
C13_IsCorrectOnlyInFeedback ==
    gameState.status # FEEDBACK => gameState.isCorrect = Null

\* C14: a successful generation stores, for every item of the payload, a
\* problem with exactly 3 options and an answerIndex in 0..2, and starts the
\* round in PLAYING.
C14_GeneratedProblemsWellFormed ==
    [][event'.name = "resolved"
          => /\ \A i \in 1..Len(gameState'.problems) :
                   /\ Len(gameState'.problems[i].options) = 3
                   /\ gameState'.problems[i].answerIndex \in 0..2
             /\ gameState'.status = PLAYING]_vars

\* C15: a generation failure whose message says the requested entity was not
\* found sets status IDLE and needsKeySelection true; a failure with any other
\* message sets status IDLE and leaves needsKeySelection as it was.
C15_FailureReturnsToIdle ==
    [][\A errorMessage \in ErrorKinds :
          (event'.name = "rejected" /\ catchBlock(errorMessage))
          => /\ gameState'.status = IDLE
             /\ needsKeySelection' =
                   IF errorMessage = "other" THEN needsKeySelection ELSE TRUE]_vars

\* A generation call failed while the game view was shown and the key
\* selection screen has replaced it.
C15_Witness ==
    /\ event.name = "rejected"
    /\ event.from = LOADING
    /\ gameState.status = IDLE
    /\ needsKeySelection
    /\ generating = 0

\* C16: an image submitted while no API key is there changes nothing: status
\* does not become LOADING and no file read or generation call is started.
C16_NoKeyNoSubmission ==
    [][(event'.name = "upload" /\ ~hasKey)
          => /\ gameState'.status # LOADING
             /\ gameState' = gameState
             /\ reading' = reading
             /\ generating' = generating]_vars

\* C17: when no audio context can be constructed the cue returns without
\* effect, so a click on an enabled option still sets status FEEDBACK.
C17_AnswerSurvivesMissingAudio ==
    [][\A k \in Choices :
          (handleAnswer(k) /\ answerButtonEnabled(k) /\ ~audioAvailable)
          => gameState'.status = FEEDBACK]_vars

\* C18: over any sequence of playSuccess and playFailure calls at most one
\* audio context is constructed and the one held is never replaced, and a cue
\* is scheduled only after init has asked a context it found suspended to
\* resume.
C18_OneContextResumed ==
    /\ [][contexts' <= 1 /\ (ctx # "null" => (ctx' # "null" /\ contexts' = contexts))]_vars
    /\ [][(call'.op # "none" /\ call'.found = "suspended")
            => (call'.resumed /\ resumes' = resumes + 1 /\ resumePending')]_vars
    /\ [][cues' # cues => (call.found = "suspended" => call.resumed)]_vars

\* The third cue was scheduled on the one context, which init had found
\* suspended and asked to resume for the second time.
C18_Witness ==
    /\ cues = 3
    /\ contexts = 1
    /\ resumes = 2
    /\ call.op = "none"
    /\ call.found = "suspended"
    /\ call.resumed

\* C19: a reset clears no timer: a callback pending at the reset still runs
\* afterwards (unless the page is reloaded first), and when it is the next
\* event after the reset it replaces the empty IDLE state, in the game state
\* and in the snapshot, by currentIndex 1 and status RETRY_SUMMARY.
C19_StaleTimerOverwritesReset ==
    /\ [][event'.name = "reset" => timers' = timers]_vars
    /\ [][(event.name = "reset" /\ event'.name = "timer")
            => /\ gameState = emptyGameState
               /\ gameState' # emptyGameState
               /\ gameState' = [emptyGameState EXCEPT !.currentIndex = 1,
                                                      !.status = RETRY_SUMMARY]
               /\ storage' = persist(gameState')]_vars
    /\ ((event.name = "reset" /\ timers > 0)
           ~> (event.name = "timer" \/ event.name = "reload"))

\* The timer of an answered problem has run on the state a reset left.
C19_Witness ==
    /\ event.name = "timer"
    /\ event.from = IDLE
    /\ gameState.problems = <<>>
    /\ gameState.currentIndex = 1
    /\ gameState.status = RETRY_SUMMARY
    /\ timers = 0

\* C20 as stated: a timer callback that runs after an intervening reset writes
\* the problems, wrongProblemIds and currentIndex + 1 of the state captured
\* when the answer was submitted.  An answer is submitted only on a shown
\* problem, so the captured problems are not empty and neither are the
\* problems such a callback would write.
C20_TimerWritesCapturedState ==
    [][(event.name = "reset" /\ event.from = FEEDBACK /\ event'.name = "timer")
          => gameState'.problems # <<>>]_vars

\* C20 amended: whatever happened since the answer, the timer callback
\* computes what it writes from the state current when it runs: it keeps that
\* state's problems and wrongProblemIds and sets that state's currentIndex + 1,
\* isCorrect null, and RETRY_SUMMARY or PLAYING by that state's problems.
C20_TimerWritesFromCurrentState ==
    [][event'.name = "timer"
          => /\ gameState'.problems = gameState.problems
             /\ gameState'.wrongProblemIds = gameState.wrongProblemIds
             /\ gameState'.currentIndex = gameState.currentIndex + 1
             /\ gameState'.isCorrect = Null
             /\ gameState'.status =
                   IF gameState.currentIndex + 1 >= Len(gameState.problems)
                   THEN RETRY_SUMMARY ELSE PLAYING]_vars

\* The timer of an answer of an earlier round has run during a later round,
\* moving that round's cursor past a problem that was never answered.
C20_Witness ==
    /\ event.name = "timer"
    /\ event.from = PLAYING
    /\ gameState.status = PLAYING
    /\ gameState.currentIndex = 1
    /\ Len(gameState.problems) = 2
    /\ gameState.wrongProblemIds = <<>>
    /\ correctIds = {}

\* C21: at any time at most one generateContent call is outstanding.
C21_OneGenerationInFlight == generating <= 1

\* C22: status becomes FINISHED only by a retry-round start taken in
\* RETRY_SUMMARY with no problem left after the filter, and a retry-round
\* start outside RETRY_SUMMARY changes nothing (the retry button is rendered
\* in the RETRY_SUMMARY view only).
C22_FinishedOnlyByEmptyRetry ==
    /\ [][(gameState'.status = FINISHED /\ gameState.status # FINISHED)
            => /\ event'.name = "retry"
               /\ gameState.status = RETRY_SUMMARY
               /\ filterWrong(gameState) = <<>>]_vars
    /\ [][(event'.name = "retry" /\ gameState.status # RETRY_SUMMARY)
            => (gameState' = gameState /\ storage' = storage)]_vars

\* A retry round of both problems of a round has started from the summary.
C22_Witness ==
    /\ event.name = "retry"
    /\ event.from = RETRY_SUMMARY
    /\ gameState.status = PLAYING
    /\ Len(gameState.problems) = 2
    /\ gameState.currentIndex = 0

\* C23: every run of the timer callback calls the canvas clear exactly once,
\* whether it goes to PLAYING or to RETRY_SUMMARY; a retry-round start calls it
\* once when it enters PLAYING and not at all when it ends in FINISHED.
C23_ClearSignalled ==
    /\ [][event'.name = "timer"
            => (gameState'.status \in {PLAYING, RETRY_SUMMARY} /\ event'.clears = 1)]_vars
    /\ [][event'.name = "retry"
            => event'.clears = IF gameState'.status = FINISHED THEN 0 ELSE 1]_vars

\* The timer of the last problem of a round cleared the canvas on its way to
\* the perfect summary.
C23_Witness ==
    /\ event.name = "timer"
    /\ event.from = FEEDBACK
    /\ event.clears = 1
    /\ gameState.status = RETRY_SUMMARY
    /\ gameState.wrongProblemIds = <<>>
    /\ gameState.problems # <<>>

C25_SetupRunsOnce ==
    [][effects > 0 => effects' = effects]_vars

\* C26: in every reachable PLAYING state currentIndex < len(problems).
C26_PlayingHasCurrentProblem ==
    gameState.status = PLAYING => gameState.currentIndex < Len(gameState.problems)

\* Apart from the round of no problems, PLAYING has a current problem.
PlayingWithProblemsHasCurrent ==
    (gameState.status = PLAYING /\ gameState.problems # <<>>)
        => gameState.currentIndex < Len(gameState.problems)

\* C27: in every reachable state every id in wrongProblemIds is the id of a
\* problem of the current problems list at an index <= currentIndex.
C27_WrongIdsArePresented ==
    \A i \in 1..Len(gameState.wrongProblemIds) :
        \E j \in 1..Len(gameState.problems) :
            /\ gameState.problems[j].id = gameState.wrongProblemIds[i]
            /\ j - 1 <= gameState.currentIndex

\* In a retry round of the second problem alone, that problem was answered
\* wrong again.
C27_Witness ==
    /\ Len(gameState.problems) = 1
    /\ gameState.problems[1].id = 1
    /\ gameState.wrongProblemIds = <<1>>
    /\ gameState.currentIndex = 0
    /\ gameState.status = FEEDBACK

\* C28: a reset is durable against an outstanding generation call: when the
\* call completes after the reset, with success or with failure, and before
\* any new image submission, the state stays the empty IDLE state.
C28_ResetIsDurable ==
    [][(event.name = "reset" /\ gameState = emptyGameState
          /\ event'.name \in {"resolved", "rejected"})
          => gameState' = emptyGameState]_vars

====
